---- MODULE Spec2Model ----
(***************************************************************************)
(* A model of Telegram/SourceFiles/ui/effects/premium_graphics.cpp: the    *)
(* widgets Bubble, BubbleWidget and Line and the free functions            *)
(* AddBubbleRow, AddAccountsRow and ShowListBox.                           *)
(*                                                                         *)
(* Every widget is independent of the others, so each has its own          *)
(* specification (SpecAccounts, SpecLine, ...) over its own variables; the *)
(* variables of the other widgets keep their idle values there.            *)
(*                                                                         *)
(* Sizes are pairs <<width, height>>.  Style values (st::...) live in the  *)
(* style files, which are not part of the source; they are given small     *)
(* scaled values here.                                                     *)
(***************************************************************************)
EXTENDS Integers, Sequences, FiniteSets, TLC

VARIABLES
    group,          \* AddAccountsRow: args.group, [value, hasValue]
    accounts,       \* AddAccountsRow: state->accounts
    containerSize,  \* AddAccountsRow: size of the FixedHeightWidget container
    accountsPc,     \* AddAccountsRow: "running", or "trapped" by a division by 0
    accountsParentWidth, \* AddAccountsRow: container->parentWidget()->width()
    line,           \* Line: the widget's size and its private fields
    lineLastSize,   \* history: the last non-empty size the Line's handler got
    lineBrushThen,  \* history: _overrideBrush when that size arrived
    lineCall,       \* history: the last call the Line got, with its argument
    bubble,         \* Bubble: _counter, _tailEdge, width() and height()
    bubbleWidget,   \* BubbleWidget: its fields, position and animation
    parentWidth,    \* BubbleWidget: parent->width()
    painted,        \* BubbleWidget: what the paintEvent of the last step drew
    bubbleCall,     \* history: the last event the BubbleWidget got
    row,            \* AddBubbleRow: the container, the BubbleWidget, combine
    rowPending,     \* AddBubbleRow: size notifications not yet handled
    rowRounds,      \* history: handler runs since the last outside event
    box             \* ShowListBox: its position, entries, lines and calls

varsAccounts ==
    <<group, accounts, containerSize, accountsPc, accountsParentWidth>>
varsLine == <<line, lineLastSize, lineBrushThen, lineCall>>

varsBubble == <<bubble, bubbleWidget, parentWidth, painted, bubbleCall>>

varsRow == <<row, rowPending, rowRounds>>
varsBox == <<box>>

vars == <<group, accounts, containerSize, accountsPc, accountsParentWidth, line, lineLastSize, lineBrushThen,
         lineCall, bubble, bubbleWidget, parentWidth, painted, bubbleCall,
         row, rowPending, rowRounds, box>>

(***************************************************************************)
(* Bounds of the model.                                                    *)
(***************************************************************************)
MaxAccounts == 3
MaxWidth == 7
MaxHeight == 2
MaxCounter == 3
AnimSteps == 12
MaxEntries == 4

Widths == 0..MaxWidth
Heights == 0..MaxHeight
Sizes == Widths \X Heights

(***************************************************************************)
(* Style values.                                                           *)
(***************************************************************************)
BoxRowPaddingLeft == 2
BoxRowPaddingRight == 2
ImageRadius == 2
SelectWidth == 1
AccountsLabelWidth == 3
AccountsHeight == 2
LineHeight == 2
DevicePixelRatio == 2
BubbleSkip == 1
BubbleWidthLimit == 4
ListRowSkip == 3
PreviewLinePaddingLeft == 1
PreviewLinePaddingRight == 1
PremiumBubbleHeight == 1

\* The widths of the vertical layout a row is added to, parentWidget()->width()
\* of the row: no width yet, narrower than a row can be, and as wide as the
\* widest row alone, with one margin and with both.
ParentWidths ==
    {0, MaxWidth \div 2, MaxWidth, MaxWidth + BoxRowPaddingLeft,
     MaxWidth + BoxRowPaddingLeft + BoxRowPaddingRight}

\* The width a widget has after a resize to width: a widget is never
\* narrower than 0.
WidgetWidth(width) == IF width < 0 THEN 0 ELSE width

\* The width a vertical layout of width layoutWidth gives a row it holds with
\* st::boxRowPadding margins.
RowWidth(layoutWidth) ==
    WidgetWidth(layoutWidth - BoxRowPaddingLeft - BoxRowPaddingRight)

(***************************************************************************)
(* Helpers.                                                                *)
(***************************************************************************)
\* C++ integer division of ints: truncation towards zero.
CDiv(a, b) ==
    IF (a >= 0) = (b > 0) \/ a = 0
    THEN (IF a >= 0 THEN a ELSE -a) \div (IF b >= 0 THEN b ELSE -b)
    ELSE -((IF a >= 0 THEN a ELSE -a) \div (IF b >= 0 THEN b ELSE -b))

\* QSize::isEmpty().
IsEmpty(s) == s[1] < 1 \/ s[2] < 1

\* ComputeGradient(content, left, width): the two colour positions of the
\* result, each as the pair <<numerator, fullFinal>> handed to
\* anim::gradient_color_at(fullGradient, numerator / fullFinal).
ComputeGradient(parentWidgetWidth, contentWidth, left, width) ==
    LET fullGradientWidth == parentWidgetWidth
        l == left + CDiv(fullGradientWidth - contentWidth, 2)
    IN  [kind |-> "gradient",
         from |-> <<l, fullGradientWidth>>,
         to |-> <<l + width, fullGradientWidth>>,
         width |-> width]

(***************************************************************************)
(* Exact rationals <<numerator, denominator>> in lowest terms with a       *)
(* positive denominator.                                                   *)
(***************************************************************************)
Abs(a) == IF a >= 0 THEN a ELSE -a

Sign(a) == IF a > 0 THEN 1 ELSE IF a < 0 THEN -1 ELSE 0

RECURSIVE GCD(_, _)
GCD(a, b) == IF b = 0 THEN a ELSE GCD(b, a % b)

Rat(n, d) ==
    IF d = 1
    THEN <<n, 1>>
    ELSE LET g == GCD(Abs(n), Abs(d))
             sg == IF d < 0 THEN -1 ELSE 1
         IN  <<(sg * n) \div g, (sg * d) \div g>>

R0 == <<0, 1>>
R1 == <<1, 1>>
RAdd(a, b) ==
    IF a = R0 THEN b
    ELSE IF b = R0 THEN a
    ELSE Rat(a[1] * b[2] + b[1] * a[2], a[2] * b[2])
RSub(a, b) ==
    IF b = R0 THEN a ELSE Rat(a[1] * b[2] - b[1] * a[2], a[2] * b[2])
RMul(a, b) ==
    IF a = R0 \/ b = R0 THEN R0
    ELSE IF a = R1 THEN b
    ELSE IF b = R1 THEN a
    ELSE Rat(a[1] * b[1], a[2] * b[2])
RDiv(a, b) ==
    IF a = R0 THEN R0
    ELSE IF b = R1 THEN a
    ELSE Rat(a[1] * b[2], a[2] * b[1])
RLess(a, b) == a[1] * b[2] < b[1] * a[2]
RLeq(a, b) == a[1] * b[2] <= b[1] * a[2]

\* 2^e for an integer e.
Pow2(e) == IF e >= 0 THEN <<2 ^ e, 1>> ELSE <<1, 2 ^ (-e)>>

RECURSIVE IsPowerOfTwo(_)
IsPowerOfTwo(d) == d = 1 \/ (d % 2 = 0 /\ IsPowerOfTwo(d \div 2))

\* floor(log2(n / d)) for n, d > 0.
RECURSIVE ILog2(_, _)
ILog2(n, d) ==
    IF n >= 2 * d THEN 1 + ILog2(n, 2 * d)
    ELSE IF n < d THEN ILog2(2 * n, d) - 1
    ELSE 0

\* (x * 2^k) mod m for 0 <= x < m, by most doublings at a time.
RECURSIVE DoubleModBy(_, _, _, _)
DoubleModBy(x, k, m, most) ==
    IF k = 0
    THEN x
    ELSE LET c == IF k < most THEN k ELSE most
         IN  DoubleModBy((x * 2 ^ c) % m, k - c, m, most)

\* (x * 2^k) mod m for 0 <= x < m < 2^29, by as many doublings at a time as
\* 31 bits hold.
DoubleMod(x, k, m) == DoubleModBy(x, k, m, 29 - ILog2(m, 1))

(***************************************************************************)
(* float64.  A finite double near a rational of small terms is written     *)
(* exactly as <<p0, p1, p2>>, the number p0 + p1 * u + p2 * u^2 with       *)
(* u = 2^-52 and rational p0, p1, p2: p0 is the value the expression has   *)
(* in exact arithmetic and the rest is what rounding left.  An operation   *)
(* takes the exact result of its operands and rounds it to the nearest     *)
(* double, ties to even, as IEEE 754 does.                                 *)
(***************************************************************************)
FromInt(i) == <<<<i, 1>>, R0, R0>>

\* The index of the first coefficient of r from index j on that is not 0,
\* or 0.
RECURSIVE LeadFrom(_, _)
LeadFrom(r, j) ==
    IF j > Len(r) THEN 0
    ELSE IF r[j] # R0 THEN j
    ELSE LeadFrom(r, j + 1)

Lead(r) == LeadFrom(r, 1)

Coef(r, j) == IF j \in 1..Len(r) THEN r[j] ELSE R0

\* The sign of what r has from coefficient j on.
TailSign(r, j) ==
    LET i == LeadFrom(r, j)
    IN  IF i = 0 THEN 0 ELSE Sign(r[i][1])

\* The double with leading coefficient p0 at index j and the next one c.
Put(j, p0, c) ==
    IF j = 1 THEN <<p0, c, R0>>
    ELSE IF j = 2 THEN <<R0, p0, c>>
    ELSE <<R0, R0, p0>>

\* The integer nearest to fl + fr for 0 <= fr < 1.  At fr = 1/2 the sign t
\* of what the number has beyond decides, and without it the parity: odd is
\* the parity of the double at fl = 0.
Nearest(fl, fr, odd, t) ==
    IF RLess(fr, <<1, 2>>) THEN fl
    ELSE IF RLess(<<1, 2>>, fr) THEN fl + 1
    ELSE IF t > 0 THEN fl + 1
    ELSE IF t < 0 THEN fl
    ELSE IF (odd + fl) % 2 = 0 THEN fl ELSE fl + 1

\* The number is g units of the last place above a double that leaves phi
\* of them from its leading coefficient: what the nearest double adds to
\* the leading coefficient, in units of the last place.
RoundOffset(phi, odd, g, fl, t) ==
    RSub(<<Nearest(fl, RSub(g, <<fl, 1>>), odd, t), 1>>, phi)

RoundUnits(phi, odd, g, t) == RoundOffset(phi, odd, g, g[1] \div g[2], t)

\* The same in units of u, for a number of the binade e.
RoundPhi(e, phi, odd, p1, t) ==
    RMul(RoundUnits(phi, odd, RAdd(phi, RDiv(p1, Pow2(e))), t), Pow2(e))

\* m is n * 2^(52 - e) mod 2 d: the leading coefficient n / d is a whole
\* number of units of the last place plus phi = (m mod d) / d of one.
RoundMod(e, d, m, p1, t) == RoundPhi(e, Rat(m % d, d), m \div d, p1, t)

RoundBinade(e, n, d, p1, t) ==
    RoundMod(e, d, DoubleMod(n % (2 * d), 52 - e, 2 * d), p1, t)

\* The binade of n / d + p1 * u + ...: one lower than that of n / d = 2^e0 if
\* the number is just below this power of two.
Binade(n, d, p1, t, e0) ==
    IF <<n, d>> = Pow2(e0) /\ (p1[1] < 0 \/ (p1[1] = 0 /\ t < 0))
    THEN e0 - 1
    ELSE e0

\* The second coefficient of the double nearest to n / d + p1 * u + ... for
\* n, d > 0, where t is the sign of what follows p1 * u.
RoundAbs(n, d, p1, t) ==
    RoundBinade(Binade(n, d, p1, t, ILog2(n, d)), n, d, p1, t)

\* The same for a leading coefficient p0 of sign s.
RoundSigned(s, p0, p1, t) ==
    RMul(<<s, 1>>, RoundAbs(s * p0[1], p0[2], <<s * p1[1], p1[2]>>, s * t))

RoundLead(j, p0, p1, t) ==
    IF p1 = R0 /\ t = 0 /\ IsPowerOfTwo(p0[2])
    THEN Put(j, p0, R0)
    ELSE Put(j, p0, RoundSigned(Sign(p0[1]), p0, p1, t))

RoundFrom(r, j) ==
    IF j = 0 \/ j > 3
    THEN FromInt(0)
    ELSE RoundLead(j, r[j], Coef(r, j + 1), TailSign(r, j + 2))

\* The double nearest to the number r[1] + r[2] * u + r[3] * u^2 + ...
\* (round to nearest, ties to even).
Round(r) == RoundFrom(r, Lead(r))

\* The exact sum, difference, product and quotient of two doubles.
ExactAdd(x, y) ==
    <<RAdd(x[1], y[1]), RAdd(x[2], y[2]), RAdd(x[3], y[3])>>
ExactSub(x, y) ==
    <<RSub(x[1], y[1]), RSub(x[2], y[2]), RSub(x[3], y[3])>>
ExactMul(x, y) ==
    <<RMul(x[1], y[1]),
      RAdd(RMul(x[1], y[2]), RMul(x[2], y[1])),
      RAdd(RAdd(RMul(x[1], y[3]), RMul(x[2], y[2])), RMul(x[3], y[1])),
      RAdd(RMul(x[2], y[3]), RMul(x[3], y[2])),
      RMul(x[3], y[3])>>
\* The coefficients q0, q1, rest from index sh + 1 on.
Shifted(sh, q0, q1, rest) ==
    IF sh = 0 THEN <<q0, q1, rest>>
    ELSE IF sh = 1 THEN <<R0, q0, q1, rest>>
    ELSE IF sh = 2 THEN <<R0, R0, q0, q1, rest>>
    ELSE <<R0, R0, R0, q0, q1, rest>>

ExactDivLead(sh, q0, q1, b0, b1) ==
    Shifted(sh, q0, q1, <<-Sign(q1[1]) * Sign(b1[1]) * Sign(b0[1]), 1>>)

ExactDivCoef(sh, a0, a1, b0, b1) ==
    ExactDivLead(sh, RDiv(a0, b0),
                 RDiv(RSub(RMul(a1, b0), RMul(a0, b1)), RMul(b0, b0)),
                 b0, b1)

ExactDivFrom(x, y, jx, jy) ==
    IF jx = 0
    THEN FromInt(0)
    ELSE ExactDivCoef(jx - jy, x[jx], Coef(x, jx + 1), y[jy], Coef(y, jy + 1))

\* x / y for y # 0 of an order not below that of x: the quotient of the
\* leading coefficients, the term of first order, and the sign of the rest.
ExactDiv(x, y) == ExactDivFrom(x, y, Lead(x), Lead(y))

FAdd(x, y) == Round(ExactAdd(x, y))
FSub(x, y) == Round(ExactSub(x, y))
FMul(x, y) == Round(ExactMul(x, y))
FDiv(x, y) == Round(ExactDiv(x, y))

\* x < y and x <= y of two numbers written by their coefficients.
FLess(x, y) ==
    IF Coef(x, 1) # Coef(y, 1) THEN RLess(Coef(x, 1), Coef(y, 1))
    ELSE IF Coef(x, 2) # Coef(y, 2) THEN RLess(Coef(x, 2), Coef(y, 2))
    ELSE RLess(Coef(x, 3), Coef(y, 3))
FLeq(x, y) == ~FLess(y, x)

\* int(x): the fraction is dropped.
ToInt(x) ==
    LET n == x[1][1]
        d == x[1][2]
        rest == TailSign(x, 2)
    IN  IF d # 1
        THEN (IF n >= 0 THEN n \div d ELSE -((-n) \div d))
        ELSE IF n > 0 /\ rest < 0 THEN n - 1
        ELSE IF n < 0 /\ rest > 0 THEN n + 1
        ELSE n

\* std::clamp(v, lo, hi).
Clamp(v, lo, hi) == IF FLess(v, lo) THEN lo ELSE IF FLess(hi, v) THEN hi ELSE v

kDeflectionSmall == 20
kDeflection == 30
kStepBeforeDeflection == FDiv(FromInt(3), FromInt(4))
kStepAfterDeflection ==
    FAdd(kStepBeforeDeflection,
         FDiv(FSub(FromInt(1), kStepBeforeDeflection), FromInt(2)))

(***************************************************************************)
(* The state of a widget that is not part of the specification at hand.    *)
(***************************************************************************)
NullPixmap == [width |-> 0, height |-> 0, fill |-> [kind |-> "null"]]
NoOverride == [kind |-> "nullopt"]

\* The fields of a Line as their initialisers leave them; parentWidth is
\* parentWidget()->width(), which the Line reads when it computes a gradient.
NewLine(size) ==
    [size |-> size,
     parentWidth |-> 0,
     leftWidth |-> 0,
     rightWidth |-> 0,
     leftPixmap |-> NullPixmap,
     rightPixmap |-> NullPixmap,
     overrideBrush |-> NoOverride]

IdleAccounts ==
    /\ group = [value |-> 0, hasValue |-> FALSE]
    /\ accounts = <<>>
    /\ containerSize = <<0, 0>>
    /\ accountsPc = "running"
    /\ accountsParentWidth = 0

\* The fields of a Bubble after its constructor; width is Bubble::width(),
\* the filled width plus the width of the number set with setText.
NewBubble(width) ==
    [counter |-> -1,
     tailEdge |-> FromInt(0),
     width |-> width,
     height |-> PremiumBubbleHeight]

\* resizeTo(w, h) of the BubbleWidget constructor.
resizeTo(r, w, h) ==
    [r EXCEPT
        !.deflection = IF w > BubbleWidthLimit
                       THEN kDeflectionSmall ELSE kDeflection,
        !.spaceForDeflection = <<BubbleSkip, BubbleSkip>>,
        !.widgetSize = <<w + BubbleSkip, h + BubbleSkip>>]

\* moveEndPoint of the constructor, which the handlers capture.
moveEndPoint(current, maxCounter) ==
    FDiv(FromInt(current), FromInt(maxCounter))

\* A BubbleWidget after its constructor: resized for the Bubble of width
\* width, no animation, at position 0.
NewBubbleWidget(current, maxCounter, maxBubbleWidth, width) ==
    resizeTo(
    [currentCounter |-> current,
     maxCounter |-> maxCounter,
     moveEndPoint |-> moveEndPoint(current, maxCounter),
     maxBubbleWidth |-> maxBubbleWidth,
     deflection |-> kDeflection,
     spaceForDeflection |-> <<0, 0>>,
     widgetSize |-> <<0, 0>>,
     ignoreDeflection |-> FALSE,
     stepBeforeDeflection |-> kStepBeforeDeflection,
     stepAfterDeflection |-> kStepAfterDeflection,
     x |-> 0,
     left |-> FromInt(0),
     taken |-> FALSE,
     animating |-> FALSE,
     called |-> FALSE,
     value |-> FromInt(0),
     bubbleEdge |-> FromInt(0)],
    width, PremiumBubbleHeight)

NothingPainted == [drawn |-> FALSE]

IdleBubble ==
    /\ bubble = NewBubble(0)
    /\ bubbleWidget = NewBubbleWidget(0, 1, 0, 0)
    /\ parentWidth = 0
    /\ painted = NothingPainted
    /\ bubbleCall = [op |-> "none"]

IdleRow ==
    /\ row = [bubbleWidth |-> 0]
    /\ rowPending = <<>>
    /\ rowRounds = 0

IdleBox ==
    box = [pc |-> "idle"]

IdleLine ==
    /\ line = NewLine(<<0, 0>>)
    /\ lineLastSize = <<0, 0>>
    /\ lineBrushThen = NoOverride
    /\ lineCall = [op |-> "none"]

(***************************************************************************)
(* AddAccountsRow.                                                         *)
(***************************************************************************)
\* cacheBadge(center): the gradient of the "+1" badge.
\* pw is container->parentWidget()->width() at the call.
cacheBadge(size, center, pw) ==
    LET rectInWidth == AccountsLabelWidth
        left == center - CDiv(rectInWidth, 2)
    IN  ComputeGradient(pw, size[1], left, rectInWidth)

\* The argument left + (columnWidth - photoWidth) / 2 of the checkbox
\* gradient.  columnWidth is a size_t, so the difference and the division are
\* unsigned 64-bit and the sum is narrowed to the int parameter: modulo 2^32
\* that is left plus the difference halved rounding down.
CheckboxGradientLeft(left, columnWidth, photoWidth) ==
    LET d == columnWidth - photoWidth
    IN  IF d >= 0 THEN left + (d \div 2) ELSE left - ((1 - d) \div 2)

\* A faulty variant of LayoutAccount that sets the height of a widget only once;
\* C4 tells the two apart.
LayoutAccountKeepsHeight(account, size, count, i, pw) ==
    LET columnWidth == size[1] \div count
        left == columnWidth * i
        photoWidth == (ImageRadius + SelectWidth) * 2
    IN  [account EXCEPT
            !.width = columnWidth,
            !.height = IF @ = 0 THEN size[2] ELSE @,
            !.left = left,
            !.badge = cacheBadge(size, left + (columnWidth \div 2), pw),
            !.colorOverride = ComputeGradient(
                pw, size[1],
                CheckboxGradientLeft(left, columnWidth, photoWidth),
                photoWidth)]

\* One account after the size handler ran for column i (0-based), the
\* container's parent being pw wide then.
LayoutAccount(account, size, count, i, pw) ==
    LET columnWidth == size[1] \div count
        left == columnWidth * i
        photoWidth == (ImageRadius + SelectWidth) * 2
    IN  [account EXCEPT
            !.width = columnWidth,
            !.height = size[2],
            !.left = left,
            !.badge = cacheBadge(size, left + (columnWidth \div 2), pw),
            !.colorOverride = ComputeGradient(
                pw, size[1],
                CheckboxGradientLeft(left, columnWidth, photoWidth),
                photoWidth)]

\* The container->sizeValue() handler: every account is laid out again.  The
\* result is the set of its outcomes.  With no account size.width() / count
\* divides by zero, which is undefined: the division traps and ends the
\* process, or, the quotient being used in the loop only, it is not carried
\* out and the handler returns after a loop of no turn.
LayoutAccounts(accs, size, pw) ==
    IF Len(accs) = 0
    THEN {[pc |-> "trapped", accounts |-> accs],
          [pc |-> "running", accounts |-> accs]}
    ELSE {[pc |-> "running",
           accounts |-> [k \in 1..Len(accs) |->
                            LayoutAccount(accs[k], size, Len(accs), k - 1, pw)]]}

\* The state->accounts.push_back loop: account index is checked iff it is
\* the group's value; the widget has no geometry and no badge yet.
NewAccount(index, groupValue) ==
    [checked |-> (index = groupValue),
     width |-> 0, height |-> 0, left |-> 0,
     badge |-> [kind |-> "null"],
     colorOverride |-> [kind |-> "null"]]

\* A faulty variant of ChangedCallback that checks the new account without unchecking the others;
\* C1 tells the two apart.
ChangedCallbackSkipsUncheck(accs, value) ==
    [k \in 1..Len(accs) |->
        [accs[k] EXCEPT !.checked = (accs[k].checked \/ (k - 1) = value)]]

\* group->setChangedCallback: the callback of the group.
ChangedCallback(accs, value) ==
    [k \in 1..Len(accs) |-> [accs[k] EXCEPT !.checked = ((k - 1) = value)]]

\* RadiobuttonGroup::setValue: nothing happens when the value is the one the
\* group has; otherwise the value is stored and the changed-callback runs.
GroupSetValue(value) ==
    IF group.hasValue /\ group.value = value
    THEN UNCHANGED <<group, accounts>>
    ELSE /\ group' = [value |-> value, hasValue |-> TRUE]
         /\ accounts' = ChangedCallback(accounts, value)

\* widget->setClickedCallback: a click on the widget of account index.
Click(index) ==
    /\ accountsPc = "running"
    /\ index \in 0..(Len(accounts) - 1)
    /\ GroupSetValue(index)
    /\ UNCHANGED <<containerSize, accountsPc, accountsParentWidth>>

\* The group's value is set by its owner (any int the model can hold).
SetGroupValue(value) ==
    /\ accountsPc = "running"
    /\ GroupSetValue(value)
    /\ UNCHANGED <<containerSize, accountsPc, accountsParentWidth>>

\* The container is resized: container->sizeValue() fires, and the handler
\* reads the width the parent has at that moment.
AccountsResize(size) ==
    /\ accountsPc = "running"
    /\ size # containerSize
    /\ containerSize' = size
    /\ \E outcome \in LayoutAccounts(accounts, size, accountsParentWidth) :
        /\ accounts' = outcome.accounts
        /\ accountsPc' = outcome.pc
    /\ UNCHANGED <<group, accountsParentWidth>>

\* parent->resizeToWidth(layoutWidth), with the width the parent has or
\* another: the layout resizes its row, the container, and then takes the
\* width itself; the handler runs while the parent still has the width it
\* had.
AccountsLayoutResize(layoutWidth) ==
    /\ accountsPc = "running"
    /\ LET size == <<RowWidth(layoutWidth), containerSize[2]>>
       IN  /\ containerSize' = size
           /\ IF size # containerSize
              THEN \E outcome \in LayoutAccounts(accounts, size,
                                                accountsParentWidth) :
                    /\ accounts' = outcome.accounts
                    /\ accountsPc' = outcome.pc
              ELSE UNCHANGED <<accounts, accountsPc>>
    /\ accountsParentWidth' = layoutWidth
    /\ UNCHANGED group

\* The parent gets another width and leaves its rows as they are: no
\* handler of the container runs.
AccountsParentResize(pw) ==
    /\ accountsPc = "running"
    /\ pw # accountsParentWidth
    /\ accountsParentWidth' = pw
    /\ UNCHANGED <<group, accounts, containerSize, accountsPc>>

GroupValues == (-1)..MaxAccounts

\* A RadiobuttonGroup is built without a value (value 0) or with one.  The
\* caller passes any number of entries, none included; sizeValue() hands the
\* handler the container's size at once.
Groups ==
    {[value |-> 0, hasValue |-> FALSE]}
        \cup {[value |-> v, hasValue |-> TRUE] : v \in GroupValues}

InitAccounts ==
    /\ IdleBox
    /\ IdleLine
    /\ IdleBubble
    /\ IdleRow
    /\ group \in Groups
    /\ containerSize \in {<<w, AccountsHeight>> : w \in Widths}
    /\ accountsParentWidth \in ParentWidths
    /\ \E count \in 0..MaxAccounts :
        \E outcome \in LayoutAccounts(
                [k \in 1..count |-> NewAccount(k - 1, group.value)],
                containerSize, accountsParentWidth) :
            /\ accounts = outcome.accounts
            /\ accountsPc = outcome.pc

NextAccounts ==
    \/ \E index \in 0..(MaxAccounts - 1) : Click(index) /\ UNCHANGED <<varsLine, varsBubble, varsRow, varsBox>>
    \/ \E value \in GroupValues : SetGroupValue(value) /\ UNCHANGED <<varsLine, varsBubble, varsRow, varsBox>>
    \/ \E size \in Sizes : AccountsResize(size) /\ UNCHANGED <<varsLine, varsBubble, varsRow, varsBox>>
    \/ \E layoutWidth \in ParentWidths :
        AccountsLayoutResize(layoutWidth) /\ UNCHANGED <<varsLine, varsBubble, varsRow, varsBox>>
    \/ \E pw \in ParentWidths :
        AccountsParentResize(pw) /\ UNCHANGED <<varsLine, varsBubble, varsRow, varsBox>>

SpecAccounts == InitAccounts /\ [][NextAccounts]_vars

\* C1: in every reachable state of the accounts row, checkbox i is checked
\* if and only if i is the group's value, so at most one checkbox is checked
\* and none is when the value is outside 0..count-1.
C1_CheckedIffGroupValue ==
    /\ \A k \in 1..Len(accounts) :
        accounts[k].checked <=> ((k - 1) = group.value)
    /\ Cardinality({k \in 1..Len(accounts) : accounts[k].checked}) <= 1
    /\ (group.value \notin 0..(Len(accounts) - 1)
            => \A k \in 1..Len(accounts) : ~accounts[k].checked)

\* A click moved the check: the group has a value set by setValue, the
\* checkbox of a later account is checked and the first one is not.
C1_Witness ==
    /\ Len(accounts) = MaxAccounts
    /\ group.hasValue
    /\ group.value = MaxAccounts - 1
    /\ accounts[MaxAccounts].checked
    /\ ~accounts[1].checked
    /\ containerSize[1] > 0

\* The shift of a gradient's position by half the difference between the
\* full gradient's width (the parent's when the handler ran) and W.
C4_Shift ==
    CDiv(accounts[1].badge.from[2] - containerSize[1], 2)

\* C4: with n >= 1 accounts and container size (W, H), account i has width
\* floor(W / n), height H and left edge i * floor(W / n), its badge and
\* checkbox gradient are the ones computed for that position; the columns are
\* ordered, disjoint and inside [0, W], and W mod n is left unused.
C4_ColumnsLaidOut ==
    LET n == Len(accounts)
        W == containerSize[1]
        H == containerSize[2]
        c == W \div n
    IN  n >= 1 =>
        /\ \A k \in 1..n :
            /\ accounts[k].width = c
            /\ accounts[k].height = H
            /\ accounts[k].left = (k - 1) * c
            /\ accounts[k].left >= 0
            /\ accounts[k].left + accounts[k].width <= W
            /\ accounts[k].badge.kind = "gradient"
            /\ accounts[k].badge.from[2] = accounts[1].badge.from[2]
            /\ accounts[k].badge.from[1]
                = (k - 1) * c + (c \div 2) - (AccountsLabelWidth \div 2)
                    + C4_Shift
            /\ accounts[k].badge.to[1]
                = accounts[k].badge.from[1] + AccountsLabelWidth
            /\ accounts[k].colorOverride.kind = "gradient"
            /\ accounts[k].colorOverride.from[2] = accounts[1].badge.from[2]
            /\ 2 * (accounts[k].colorOverride.from[1] - C4_Shift)
                    + accounts[k].colorOverride.width
                \in { 2 * (k - 1) * c + c - r : r \in 0..1 }
        /\ \A j, k \in 1..n :
            j < k => accounts[j].left + accounts[j].width <= accounts[k].left
        /\ W - (accounts[n].left + accounts[n].width) = W % n

\* A resize to a width the count does not divide: three columns of width 2
\* and a strip of one pixel.
C4_Witness ==
    /\ Len(accounts) = 3
    /\ containerSize = <<7, 1>>
    /\ accounts[3].left = 4
    /\ accounts[3].width = 2
    /\ accounts[3].height = 1

(***************************************************************************)
(* Line.                                                                   *)
(***************************************************************************)
\* QPixmap(r.size() * style::DevicePixelRatio()) painted with fill.  A
\* QPixmap made with a width or a height of 0 is a null pixmap, whose width()
\* and height() are both 0; it has no pixel to paint, and fill is the brush
\* the code hands fillPath.
Pixmap(width, height, fill) ==
    IF width * DevicePixelRatio <= 0 \/ height * DevicePixelRatio <= 0
    THEN [width |-> 0, height |-> 0, fill |-> fill]
    ELSE [width |-> width * DevicePixelRatio,
          height |-> height * DevicePixelRatio,
          fill |-> fill]

\* A faulty variant of recache that leaves the right pixmap as it was;
\* C3 tells the two apart.
recacheKeepsRight(l, s) ==
    [l EXCEPT !.leftPixmap = Pixmap(l.leftWidth, s[2], [kind |-> "shadow"])]

\* A faulty variant of recache that always fills the right pixmap with the gradient;
\* C9 tells the two apart.
recacheIgnoresOverride(l, s) ==
    LET left == Pixmap(l.leftWidth, s[2], [kind |-> "shadow"])
    IN  [l EXCEPT
            !.leftPixmap = left,
            !.rightPixmap = Pixmap(l.leftWidth, s[2],
                ComputeGradient(l.parentWidth, l.size[1],
                    (left.width \div DevicePixelRatio) + 0, l.leftWidth))]

\* Line::recache(s), with _leftWidth already set: both pixmaps have the size
\* of r = QRect(0, 0, _leftWidth, s.height()); the right one is filled with
\* the override brush if there is one and with the computed gradient if not.
recache(l, s) ==
    LET left == Pixmap(l.leftWidth, s[2], [kind |-> "shadow"])
    IN  [l EXCEPT
            !.leftPixmap = left,
            !.rightPixmap = Pixmap(l.leftWidth, s[2],
                IF l.overrideBrush # NoOverride
                THEN l.overrideBrush
                ELSE ComputeGradient(l.parentWidth, l.size[1],
                        (left.width \div DevicePixelRatio) + 0, l.leftWidth))]

\* A faulty variant of SizeHandler that does not return for an empty size;
\* C8 tells the two apart.
SizeHandlerNoEmptyCheck(l, s) ==
    recache([l EXCEPT !.size = s,
                      !.leftWidth = s[1] \div 2,
                      !.rightWidth = s[1] - (s[1] \div 2)], s)

\* The sizeValue() handler of the constructor, for a widget of size s.
SizeHandler(l, s) ==
    IF IsEmpty(s)
    THEN [l EXCEPT !.size = s]
    ELSE recache([l EXCEPT !.size = s,
                           !.leftWidth = s[1] \div 2,
                           !.rightWidth = s[1] - (s[1] \div 2)], s)

\* Line::setColorOverride(brush).
setColorOverride(l, brush) ==
    IF brush.kind = "NoBrush"
    THEN [l EXCEPT !.overrideBrush = NoOverride]
    ELSE [l EXCEPT !.overrideBrush = brush]

\* The brushes a caller passes: Qt::NoBrush or a brush with a pattern.
Brushes == {[kind |-> "NoBrush"], [kind |-> "brush", id |-> 1],
            [kind |-> "brush", id |-> 2]}

\* The widget gets a new size: sizeValue() fires with it, and recache reads
\* the width the parent has at that moment.
LineResize(s) ==
    /\ s # line.size
    /\ line' = SizeHandler(line, s)
    /\ lineLastSize' = IF IsEmpty(s) THEN lineLastSize ELSE s
    /\ lineBrushThen' = IF IsEmpty(s) THEN lineBrushThen ELSE line.overrideBrush
    /\ lineCall' = [op |-> "sizeValue", size |-> s]

\* parent->resizeToWidth(layoutWidth) for a Line added by AddLimitRow with
\* st::boxRowPadding, with the width the parent has or another: the layout
\* resizes its row, the Line, and then takes the width itself; the handler
\* runs while the parent still has the width it had.
LineLayoutResize(layoutWidth) ==
    /\ LET s == <<RowWidth(layoutWidth), line.size[2]>>
           changed == s # line.size
           handled == changed /\ ~IsEmpty(s)
       IN  /\ line' = [(IF changed THEN SizeHandler(line, s) ELSE line)
                            EXCEPT !.parentWidth = layoutWidth]
           /\ lineLastSize' = IF handled THEN s ELSE lineLastSize
           /\ lineBrushThen'
                = IF handled THEN line.overrideBrush ELSE lineBrushThen
           /\ lineCall' = IF changed
                          THEN [op |-> "sizeValue", size |-> s]
                          ELSE [op |-> "parentResize"]

\* The parent gets another width and leaves its rows as they are: no
\* handler of the Line runs.
LineParentResize(pw) ==
    /\ pw # line.parentWidth
    /\ line' = [line EXCEPT !.parentWidth = pw]
    /\ lineCall' = [op |-> "parentResize"]
    /\ UNCHANGED <<lineLastSize, lineBrushThen>>

LineSetColorOverride(brush) ==
    /\ line' = setColorOverride(line, brush)
    /\ lineCall' = [op |-> "setColorOverride", brush |-> brush]
    /\ UNCHANGED <<lineLastSize, lineBrushThen>>

\* The constructor: resize(width(), st::requestsAcceptButton.height), then
\* sizeValue() hands the handler the size the widget has.  The Line is built
\* before it is added to a layout: its parent has any width then.
InitLine ==
    /\ IdleBox
    /\ IdleAccounts
    /\ IdleBubble
    /\ IdleRow
    /\ \E w \in Widths : \E pw \in ParentWidths :
        /\ line = SizeHandler(
                    [NewLine(<<w, LineHeight>>) EXCEPT !.parentWidth = pw],
                    <<w, LineHeight>>)
        /\ lineLastSize
            = IF IsEmpty(<<w, LineHeight>>) THEN <<0, 0>> ELSE <<w, LineHeight>>
    /\ lineBrushThen = NoOverride
    /\ lineCall = [op |-> "none"]

NextLine ==
    \/ \E s \in Sizes :
        LineResize(s) /\ UNCHANGED <<varsAccounts, varsBubble, varsRow, varsBox>>
    \/ \E layoutWidth \in ParentWidths :
        LineLayoutResize(layoutWidth) /\ UNCHANGED <<varsAccounts, varsBubble, varsRow, varsBox>>
    \/ \E pw \in ParentWidths :
        LineParentResize(pw) /\ UNCHANGED <<varsAccounts, varsBubble, varsRow, varsBox>>
    \/ \E brush \in Brushes :
        LineSetColorOverride(brush) /\ UNCHANGED <<varsAccounts, varsBubble, varsRow, varsBox>>

SpecLine == InitLine /\ [][NextLine]_vars

\* Both pixmaps are the ones recache() makes for size s.
RecachedFor(l, s) ==
    LET half == s[1] \div 2
        null == half * DevicePixelRatio <= 0 \/ s[2] * DevicePixelRatio <= 0
    IN  /\ l.leftPixmap.width = (IF null THEN 0 ELSE half * DevicePixelRatio)
        /\ l.leftPixmap.height = (IF null THEN 0 ELSE s[2] * DevicePixelRatio)
        /\ l.leftPixmap.fill.kind = "shadow"
        /\ l.rightPixmap.width = (IF null THEN 0 ELSE half * DevicePixelRatio)
        /\ l.rightPixmap.height = (IF null THEN 0 ELSE s[2] * DevicePixelRatio)
        /\ l.rightPixmap.fill.kind \in {"brush", "gradient"}
        /\ (l.rightPixmap.fill.kind = "gradient"
                => l.rightPixmap.fill.width = half)

\* C3 as stated: after every size change both pixmaps are the ones recache()
\* makes for the new size.
C3_RecachedOnEveryResize ==
    [][line'.size # line.size => RecachedFor(line', line'.size)]_vars

\* C3: after every change to a size that is not empty, both pixmaps are the
\* ones recache() makes for the new size.
C3_RecachedOnNonEmptyResize ==
    [][(line'.size # line.size /\ ~IsEmpty(line'.size))
            => RecachedFor(line', line'.size)]_vars

\* A resize from one non-empty size to another, the pixmaps following it.
C3_Witness ==
    /\ line.size = <<5, 1>>
    /\ lineLastSize = <<5, 1>>
    /\ line.leftPixmap.width = 2 * DevicePixelRatio
    /\ line.leftPixmap.height = DevicePixelRatio
    /\ line.rightPixmap.width = 2 * DevicePixelRatio

\* C8: _leftWidth + _rightWidth is the width W of the last non-empty size
\* received (0 before any), _leftWidth is floor(W / 2) and _rightWidth is
\* _leftWidth or one more; a notification with an empty size changes neither
\* the two widths nor the two pixmaps.
C8_Widths ==
    /\ line.leftWidth + line.rightWidth = lineLastSize[1]
    /\ line.leftWidth = lineLastSize[1] \div 2
    /\ line.rightWidth - line.leftWidth \in 0..1

C8_EmptyKeeps ==
    (line'.size # line.size /\ IsEmpty(line'.size))
        => /\ line'.leftWidth = line.leftWidth
           /\ line'.rightWidth = line.rightWidth
           /\ line'.leftPixmap = line.leftPixmap
           /\ line'.rightPixmap = line.rightPixmap

C8_HalvesOfLastNonEmptyWidth == []C8_Widths /\ [][C8_EmptyKeeps]_vars

\* The Line had an odd width and then got an empty size: the halves of the
\* odd width are still there.
C8_Witness ==
    /\ IsEmpty(line.size)
    /\ line.size # <<0, 0>>
    /\ lineLastSize[1] = 5
    /\ line.leftWidth = 2
    /\ line.rightWidth = 3

\* C9: setColorOverride changes the stored override brush only (NoBrush
\* clears it), not the pixmaps or the two widths; so the right pixmap is
\* filled with the override brush exactly if an override was set when the
\* last non-empty size arrived, and with the gradient otherwise.
C9_RightFill ==
    /\ (lineBrushThen # NoOverride
            <=> line.rightPixmap.fill.kind = "brush")
    /\ (lineBrushThen # NoOverride => line.rightPixmap.fill = lineBrushThen)
    /\ (lineBrushThen = NoOverride /\ lineLastSize # <<0, 0>>
            => line.rightPixmap.fill.kind = "gradient")

C9_OverrideOnly ==
    lineCall'.op = "setColorOverride"
        => /\ line'.leftPixmap = line.leftPixmap
           /\ line'.rightPixmap = line.rightPixmap
           /\ line'.leftWidth = line.leftWidth
           /\ line'.rightWidth = line.rightWidth
           /\ line'.size = line.size
           /\ line'.overrideBrush
                = IF lineCall'.brush.kind = "NoBrush"
                  THEN NoOverride ELSE lineCall'.brush

C9_OverrideShowsAfterResize == []C9_RightFill /\ [][C9_OverrideOnly]_vars

\* An override was set after the last resize: the brush is stored and the
\* right pixmap still has the gradient.
C9_Witness ==
    /\ line.overrideBrush = [kind |-> "brush", id |-> 1]
    /\ lineBrushThen = NoOverride
    /\ ~IsEmpty(line.size)
    /\ line.rightPixmap.fill.kind = "gradient"

(***************************************************************************)
(* Bubble and BubbleWidget.                                                *)
(***************************************************************************)
\* Bubble::setCounter(value): a new value is stored and handed to
\* _numberAnimation.setText; width is Bubble::width() with that number.
setCounter(b, value, width) ==
    IF b.counter # value
    THEN [b EXCEPT !.counter = value, !.width = width]
    ELSE b

\* The handler of _bubble.widthChanges(): the widget is resized for the width
\* the Bubble has now.
WidthChangesHandler(w, b) == resizeTo(w, b.width, b.height)

\* A faulty variant of setTailEdge that stores the edge as it comes;
\* C2 tells the two apart.
setTailEdgeUnclamped(b, edge) == [b EXCEPT !.tailEdge = edge]

\* Bubble::setTailEdge(edge).
setTailEdge(b, edge) ==
    [b EXCEPT !.tailEdge = Clamp(edge, FromInt(0), FromInt(1))]

\* computeLeft(pointRatio, animProgress) of the constructor.
computeLeft(w, pw, pointRatio, animProgress) ==
    LET halfWidth == CDiv(w.maxBubbleWidth, 2)
        left == BoxRowPaddingLeft
        right == BoxRowPaddingRight
    IN  FAdd(FSub(FMul(FMul(FromInt(pw - left - right), pointRatio),
                       animProgress),
                  FromInt(halfWidth)),
             FromInt(left))

\* computeEdge of the showFinishes handler.
computeEdge(w, pw) == pw - BoxRowPaddingRight - w.maxBubbleWidth

\* checkBubbleEdges of the showFinishes handler.
checkBubbleEdges(w, pw) ==
    LET finish == computeLeft(w, pw, w.moveEndPoint, FromInt(1))
        edge == FromInt(computeEdge(w, pw))
    IN  IF FLeq(edge, finish)
        THEN FDiv(FSub(finish, edge),
                  FDiv(FromInt(w.maxBubbleWidth), FromInt(2)))
        ELSE FromInt(0)

\* A faulty variant of ShowFinishesHandler that keeps the two steps when the
\* deflection is ignored; C12 tells the two apart.
ShowFinishesHandlerKeepsSteps(w, pw) ==
    IF w.taken
    THEN w
    ELSE LET bubbleEdge == checkBubbleEdges(w, pw)
         IN  [w EXCEPT
                !.taken = TRUE,
                !.bubbleEdge = bubbleEdge,
                !.ignoreDeflection = (bubbleEdge # FromInt(0)),
                !.animating = TRUE,
                !.value = FromInt(0)]

\* A faulty variant of ShowFinishesHandler that has no rpl::take(1) before it;
\* C6 tells the two apart.
ShowFinishesHandlerEveryTime(w, pw) ==
    LET bubbleEdge == checkBubbleEdges(w, pw)
        ignore == bubbleEdge # FromInt(0)
    IN  [w EXCEPT
            !.taken = TRUE,
            !.bubbleEdge = bubbleEdge,
            !.ignoreDeflection = ignore,
            !.stepBeforeDeflection = IF ignore THEN FromInt(1) ELSE @,
            !.stepAfterDeflection = IF ignore THEN FromInt(1) ELSE @,
            !.animating = TRUE,
            !.value = FromInt(0)]

\* The showFinishes handler behind rpl::take(1): the first event sets the
\* deflection steps and starts the appearance animation, later events never
\* reach the handler.
ShowFinishesHandler(w, pw) ==
    IF w.taken
    THEN w
    ELSE LET bubbleEdge == checkBubbleEdges(w, pw)
             ignore == bubbleEdge # FromInt(0)
         IN  [w EXCEPT
                !.taken = TRUE,
                !.bubbleEdge = bubbleEdge,
                !.ignoreDeflection = ignore,
                !.stepBeforeDeflection = IF ignore THEN FromInt(1) ELSE @,
                !.stepAfterDeflection = IF ignore THEN FromInt(1) ELSE @,
                !.animating = TRUE,
                !.value = FromInt(0)]

\* The callback of _appearanceAnimation for value: the widget moves.  left
\* is the float64 handed to moveToLeft, x the int the widget is moved to.
CallbackWidget(w, pw, value) ==
    LET moveProgress ==
            Clamp(FDiv(value, w.stepBeforeDeflection), FromInt(0), FromInt(1))
        left == FSub(computeLeft(w, pw, w.moveEndPoint, moveProgress),
                     FMul(FDiv(FromInt(w.maxBubbleWidth), FromInt(2)),
                          w.bubbleEdge))
    IN  [w EXCEPT
            !.x = ToInt(left),
            !.left = left,
            !.value = value,
            !.called = TRUE,
            !.animating = (value # FromInt(1))]

\* A faulty variant of CallbackBubble that counts with _stepBeforeDeflection;
\* C5 tells the two apart.
CallbackBubbleCountsByMove(w, b, value, width) ==
    LET counterProgress ==
            Clamp(FDiv(value, w.stepBeforeDeflection), FromInt(0), FromInt(1))
        counter == ToInt(FAdd(FromInt(0),
                              FMul(counterProgress, FromInt(w.currentCounter))))
    IN  setTailEdge(setCounter(b, counter, width), FMul(value, w.bubbleEdge))

\* The callback of _appearanceAnimation for value: counter and tail edge;
\* width is the width of the Bubble if setCounter sets another number.
CallbackBubble(w, b, value, width) ==
    LET counterProgress ==
            Clamp(FDiv(value, w.stepAfterDeflection), FromInt(0), FromInt(1))
        counter == ToInt(FAdd(FromInt(0),
                              FMul(counterProgress, FromInt(w.currentCounter))))
        edgeProgress == FMul(value, w.bubbleEdge)
    IN  setTailEdge(setCounter(b, counter, width), edgeProgress)

\* BubbleWidget::paintEvent: nothing for a counter <= 0; during the animation
\* the bubble is scaled and, unless the deflection is ignored, rotated.
paintEvent(w, b) ==
    IF b.counter <= 0
    THEN NothingPainted
    ELSE IF w.animating
    THEN LET progress == w.value
             scale == Clamp(FDiv(progress, w.stepBeforeDeflection),
                            FromInt(0), FromInt(1))
         IN  [drawn |-> TRUE,
              scale |-> scale,
              rotation |->
                IF w.ignoreDeflection
                THEN FromInt(0)
                ELSE LET rotationProgress ==
                            Clamp(FDiv(FSub(progress, w.stepBeforeDeflection),
                                       FSub(FromInt(1), w.stepBeforeDeflection)),
                                  FromInt(0), FromInt(1))
                         rotationProgressReverse ==
                            Clamp(FDiv(FSub(progress, w.stepAfterDeflection),
                                       FSub(FromInt(1), w.stepAfterDeflection)),
                                  FromInt(0), FromInt(1))
                     IN  FSub(FMul(rotationProgress, FromInt(w.deflection)),
                              FMul(rotationProgressReverse,
                                   FromInt(w.deflection))),
              tailEdge |-> b.tailEdge]
    ELSE [drawn |-> TRUE, scale |-> FromInt(1), rotation |-> FromInt(0),
          tailEdge |-> b.tailEdge]

\* A showFinishes event.
ShowFinishes ==
    /\ bubbleWidget' = ShowFinishesHandler(bubbleWidget, parentWidth)
    /\ bubbleCall' = [op |-> "showFinishes"]
    /\ painted' = NothingPainted
    /\ UNCHANGED <<bubble, parentWidth>>

\* The widths a Bubble has with one number or another: up to
\* st::premiumBubbleWidthLimit, or above it.
BubbleTextWidths == {BubbleWidthLimit - 1, BubbleWidthLimit + 1}

\* The values the animation calls back with: the float64 k / AnimSteps.
AnimValues == {FDiv(FromInt(k), FromInt(AnimSteps)) : k \in 0..AnimSteps}

\* The animation calls back with a value not below the value it had; the
\* value 1 is the last one.  If setCounter sets a number of another width,
\* widthChanges() fires and its handler runs in the call.
AnimationTick(value) ==
    /\ bubbleWidget.animating
    /\ FLeq(bubbleWidget.value, value)
    /\ LET moved == CallbackWidget(bubbleWidget, parentWidth, value)
       IN  \E width \in BubbleTextWidths :
            LET b == CallbackBubble(bubbleWidget, bubble, value, width)
            IN  /\ bubble' = b
                /\ bubbleWidget' = IF b.width # bubble.width
                                   THEN WidthChangesHandler(moved, b)
                                   ELSE moved
    /\ bubbleCall' = [op |-> "tick"]
    /\ painted' = NothingPainted
    /\ UNCHANGED parentWidth

\* The animation reaches the end of its duration.
AnimationFinish == AnimationTick(FromInt(1))

PaintEvent ==
    /\ painted' = paintEvent(bubbleWidget, bubble)
    /\ bubbleCall' = [op |-> "paint"]
    /\ UNCHANGED <<bubble, bubbleWidget, parentWidth>>

\* _bubble.widthChanges() fires between two callbacks: the number set by
\* setCounter takes another width while _numberAnimation shows it.
BubbleWidthChanges(width) ==
    /\ bubble.counter >= 0
    /\ width # bubble.width
    /\ bubble' = [bubble EXCEPT !.width = width]
    /\ bubbleWidget' = WidthChangesHandler(bubbleWidget, bubble')
    /\ bubbleCall' = [op |-> "widthChanges"]
    /\ painted' = NothingPainted
    /\ UNCHANGED parentWidth

\* The host gives the parent another width.
BubbleParentWidths == {MaxWidth + 1, MaxWidth + 3}

BubbleParentResize(pw) ==
    /\ pw # parentWidth
    /\ parentWidth' = pw
    /\ bubbleCall' = [op |-> "parentResize"]
    /\ painted' = NothingPainted
    /\ UNCHANGED <<bubble, bubbleWidget>>

MaxBubbleWidths == {2, 4}

InitBubble ==
    /\ IdleBox
    /\ IdleAccounts
    /\ IdleLine
    /\ IdleRow
    /\ \E current \in 0..MaxCounter, maxCounter \in 1..MaxCounter,
          maxBubbleWidth \in MaxBubbleWidths,
          width \in BubbleTextWidths :
        /\ bubble = NewBubble(width)
        /\ bubbleWidget
            = NewBubbleWidget(current, maxCounter, maxBubbleWidth, width)
    /\ parentWidth \in BubbleParentWidths
    /\ painted = NothingPainted
    /\ bubbleCall = [op |-> "none"]

NextBubble ==
    \/ ShowFinishes /\ UNCHANGED <<varsAccounts, varsLine, varsRow, varsBox>>
    \/ \E value \in AnimValues \ {FromInt(1)} :
        AnimationTick(value) /\ UNCHANGED <<varsAccounts, varsLine, varsRow, varsBox>>
    \/ AnimationFinish /\ UNCHANGED <<varsAccounts, varsLine, varsRow, varsBox>>
    \/ PaintEvent /\ UNCHANGED <<varsAccounts, varsLine, varsRow, varsBox>>
    \/ \E width \in BubbleTextWidths :
        BubbleWidthChanges(width) /\ UNCHANGED <<varsAccounts, varsLine, varsRow, varsBox>>
    \/ \E pw \in BubbleParentWidths :
        BubbleParentResize(pw) /\ UNCHANGED <<varsAccounts, varsLine, varsRow, varsBox>>

SpecBubble == InitBubble /\ [][NextBubble]_vars

\* C2: the tail-edge progress of the Bubble is within [0, 1] in every
\* reachable state, also when the animation hands setTailEdge the product
\* value * bubbleEdge with a bubbleEdge above 1.
C2_TailEdgeInUnitRange ==
    /\ FLeq(FromInt(0), bubble.tailEdge)
    /\ FLeq(bubble.tailEdge, FromInt(1))

\* The current counter is above the maximum, bubbleEdge is above 1, and a
\* callback before the end of the animation had its product cut down to 1.
C2_Witness ==
    /\ bubbleWidget.currentCounter > bubbleWidget.maxCounter
    /\ FLess(FromInt(1), bubbleWidget.bubbleEdge)
    /\ bubbleWidget.called
    /\ FLess(bubbleWidget.value, FromInt(1))
    /\ FLess(FromInt(1), FMul(bubbleWidget.value, bubbleWidget.bubbleEdge))
    /\ bubble.tailEdge = FromInt(1)

\* clamp(value / stepAfterDeflection, 0, 1) * current in exact arithmetic,
\* by its coefficients.
C5_Product(w) ==
    LET q == ExactDiv(w.value, w.stepAfterDeflection)
        c == IF FLess(q, FromInt(0)) THEN FromInt(0)
             ELSE IF FLess(FromInt(1), q) THEN FromInt(1) ELSE q
    IN  ExactMul(c, FromInt(w.currentCounter))

\* floor(clamp(value / stepAfterDeflection, 0, 1) * current).
C5_Expected(w) == ToInt(C5_Product(w))

C5_CounterOfValue ==
    /\ bubbleWidget.called
        => /\ bubble.counter = C5_Expected(bubbleWidget)
           /\ bubble.counter \in 0..bubbleWidget.currentCounter
           /\ (bubbleWidget.value = FromInt(1)
                => bubble.counter = bubbleWidget.currentCounter)
    /\ (bubbleWidget.taken /\ ~bubbleWidget.animating)
        => /\ bubbleWidget.value = FromInt(1)
           /\ bubble.counter = bubbleWidget.currentCounter

C5_Monotone ==
    (bubbleWidget.called /\ bubbleWidget'.called
            /\ FLeq(bubbleWidget.value, bubbleWidget'.value))
        => bubble.counter <= bubble'.counter

C5_Computed(w) ==
    ToInt(FAdd(FromInt(0),
               FMul(Clamp(FDiv(w.value, w.stepAfterDeflection),
                          FromInt(0), FromInt(1)),
                    FromInt(w.currentCounter))))

\* The counter is the float64 result; it is the floor of the exact product,
\* or one more where the exact product is a rounding error below an integer
\* that the float64 product reaches.
C5_CounterOfFloatValue ==
    /\ bubbleWidget.called
        => /\ bubble.counter = C5_Computed(bubbleWidget)
           /\ bubble.counter \in {C5_Expected(bubbleWidget),
                                  C5_Expected(bubbleWidget) + 1}
           /\ (bubble.counter # C5_Expected(bubbleWidget)
                => /\ C5_Product(bubbleWidget)[1] = <<bubble.counter, 1>>
                   /\ TailSign(C5_Product(bubbleWidget), 2) < 0)
           /\ bubble.counter \in 0..bubbleWidget.currentCounter
           /\ (bubbleWidget.value = FromInt(1)
                => bubble.counter = bubbleWidget.currentCounter)
    /\ (bubbleWidget.taken /\ ~bubbleWidget.animating)
        => /\ bubbleWidget.value = FromInt(1)
           /\ bubble.counter = bubbleWidget.currentCounter

C6_QuietBeforeShow ==
    ~bubbleWidget.taken
        => /\ bubble.counter = -1
           /\ ~bubbleWidget.animating
           /\ ~bubbleWidget.called
           /\ bubbleWidget.x = 0
           /\ painted = NothingPainted

\* The animation starts with the first showFinishes event only.
C6_StartedByFirstShow ==
    (~bubbleWidget.animating /\ bubbleWidget'.animating)
        => (bubbleCall'.op = "showFinishes" /\ ~bubbleWidget.taken)

\* A showFinishes event after the first changes nothing.
C6_LaterShowsIgnored ==
    (bubbleCall'.op = "showFinishes" /\ bubbleWidget.taken)
        => (bubbleWidget' = bubbleWidget /\ bubble' = bubble)

\* C6: the appearance animation is started by the first showFinishes event
\* and by nothing else; before it the counter is -1 and paintEvent draws
\* nothing, and every later showFinishes event is ignored.
C6_OnlyFirstShowStarts ==
    /\ []C6_QuietBeforeShow
    /\ [][C6_StartedByFirstShow /\ C6_LaterShowsIgnored]_vars

\* A second showFinishes event arrived in the middle of the animation, which
\* goes on from where it was.
C6_Witness ==
    /\ bubbleCall.op = "showFinishes"
    /\ bubbleWidget.animating
    /\ bubbleWidget.called
    /\ FLess(FromInt(0), bubbleWidget.value)
    /\ bubble.counter > 0

\* finish and edge of claim C11 for a parent of width pw, exact rationals.
C11_Finish(w, pw) ==
    RAdd(RSub(RMul(<<pw - BoxRowPaddingLeft - BoxRowPaddingRight, 1>>,
                   Rat(w.currentCounter, w.maxCounter)),
              <<w.maxBubbleWidth \div 2, 1>>),
         <<BoxRowPaddingLeft, 1>>)

C11_Edge(w, pw) == <<pw - BoxRowPaddingRight - w.maxBubbleWidth, 1>>

\* The value in exact arithmetic of the float64 x: what its expression gives
\* without rounding.
C11_Exact(x) == x[1]

C11_Min(a, b) == IF RLeq(a, b) THEN a ELSE b

\* The callback with value 1 has just run.
C11_ReachesOne ==
    /\ bubbleCall'.op = "tick"
    /\ bubbleWidget.animating
    /\ bubbleWidget'.value = FromInt(1)

\* C11: when the appearance animation reaches value 1, the float handed to
\* moveToLeft is min(finish, edge) for the width the parent has, so the
\* widget with maxBubbleWidth ends left of the parent's right row padding.
C11_LeftIsMinOfFinishAndEdge ==
    [][C11_ReachesOne
        => /\ C11_Exact(bubbleWidget'.left)
                = C11_Min(C11_Finish(bubbleWidget', parentWidth'),
                          C11_Edge(bubbleWidget', parentWidth'))
           /\ RLeq(C11_Exact(bubbleWidget'.left),
                   C11_Edge(bubbleWidget', parentWidth'))
      ]_vars

\* What holds of the code: the same for an animation whose bubbleEdge, taken
\* at the showFinishes event, is the one of the width the parent has at
\* value 1 (the parent kept its width, or a width with the same bubbleEdge).
C11_LeftIsMinForTheShownWidth ==
    [][(C11_ReachesOne
            /\ bubbleWidget.bubbleEdge
                = checkBubbleEdges(bubbleWidget, parentWidth))
        => /\ C11_Exact(bubbleWidget'.left)
                = C11_Min(C11_Finish(bubbleWidget', parentWidth'),
                          C11_Edge(bubbleWidget', parentWidth'))
           /\ RLeq(C11_Exact(bubbleWidget'.left),
                   C11_Edge(bubbleWidget', parentWidth'))
      ]_vars

\* The parent grew between the showFinishes event and value 1 and the
\* widget ended right of the edge: it overlaps the parent's right padding.
C11_Overlaps ==
    /\ bubbleCall.op = "tick"
    /\ bubbleWidget.value = FromInt(1)
    /\ RLess(C11_Edge(bubbleWidget, parentWidth),
             C11_Exact(bubbleWidget.left))

\* The float the callback hands moveToLeft once the move is complete.
C12_MovedLeft(w, pw) ==
    FSub(computeLeft(w, pw, w.moveEndPoint, FromInt(1)),
         FMul(FDiv(FromInt(w.maxBubbleWidth), FromInt(2)), w.bubbleEdge))

\* The callback ran with value v: where the move and the counter are.
C12_CallbackPhases ==
    bubbleCall'.op = "tick"
        => LET w == bubbleWidget'
               v == w.value
               moved == (w.left = C12_MovedLeft(w, parentWidth'))
               counted == (bubble'.counter = w.currentCounter)
           IN  /\ w.ignoreDeflection <=> (w.bubbleEdge # FromInt(0))
               /\ ~w.ignoreDeflection
                    => /\ w.stepBeforeDeflection = kStepBeforeDeflection
                       /\ w.stepAfterDeflection = kStepAfterDeflection
                       /\ FLeq(kStepBeforeDeflection, v) => moved
                       /\ FLeq(kStepAfterDeflection, v) => counted
               /\ w.ignoreDeflection
                    => /\ w.stepBeforeDeflection = FromInt(1)
                       /\ w.stepAfterDeflection = FromInt(1)
                       /\ moved <=> (v = FromInt(1))
                       /\ counted <=> (v = FromInt(1))

\* paintEvent drew the bubble: its scale and rotation.
C12_PaintPhases ==
    (bubbleCall'.op = "paint" /\ painted'.drawn)
        => LET w == bubbleWidget
               v == w.value
           IN  /\ (~w.ignoreDeflection /\ FLeq(kStepBeforeDeflection, v))
                    => painted'.scale = FromInt(1)
               /\ ~w.ignoreDeflection
                    => (painted'.rotation # FromInt(0)
                            <=> (FLess(kStepBeforeDeflection, v)
                                    /\ FLess(v, FromInt(1))))
               /\ v = FromInt(1) => painted'.rotation = FromInt(0)
               /\ w.ignoreDeflection => painted'.rotation = FromInt(0)

\* C12: if the bubble does not hit the right edge (bubbleEdge = 0), move and
\* scale are complete once value >= 0.75, the counter is at its target once
\* value >= 0.875, and the rotation is non-zero only for 0.75 < value < 1;
\* if it hits the edge, both steps are 1, move and counter are complete at
\* value 1 only, and the bubble is never rotated.
C12_PhasesOrdered == [][C12_CallbackPhases /\ C12_PaintPhases]_vars

\* A bubble that does not hit the edge is painted between value 0.875 and 1:
\* moved, scaled and counted to the end, and still rotated.
C12_Witness ==
    /\ bubbleCall.op = "paint"
    /\ painted.drawn
    /\ ~bubbleWidget.ignoreDeflection
    /\ bubbleWidget.animating
    /\ FLess(kStepAfterDeflection, bubbleWidget.value)
    /\ bubble.counter = bubbleWidget.currentCounter
    /\ painted.scale = FromInt(1)
    /\ FLess(FromInt(0), painted.rotation)
    /\ FLess(painted.rotation, FromInt(bubbleWidget.deflection))

(***************************************************************************)
(* AddBubbleRow: the container and the BubbleWidget resize each other.     *)
(* A resize that changes a size makes that widget's sizeValue() fire; the  *)
(* handlers of the notifications run one after the other.                  *)
(***************************************************************************)
\* A faulty variant of CombineHandler that keeps the height of the container;
\* C7 tells the two apart.
CombineHandlerKeepsHeight(r, parentSize, size) ==
    [r EXCEPT !.containerSize = <<parentSize[1], parentSize[2]>>]

\* The handler of rpl::combine(container->sizeValue(), bubble->sizeValue()).
CombineHandler(r, parentSize, size) ==
    [r EXCEPT !.containerSize = <<parentSize[1], size[2]>>]

\* The notification a widget sends when a resize changed its size.
Notify(src, before, after) ==
    IF before # after THEN <<[src |-> src, size |-> after]>> ELSE <<>>

\* _bubble.widthChanges() fires: the Bubble has another width.
RowBubbleWidthChange(w) ==
    /\ rowPending = <<>>
    /\ w # row.bubbleWidth
    /\ LET r == resizeTo([row EXCEPT !.bubbleWidth = w], w, row.bubbleHeight)
       IN  /\ row' = r
           /\ rowPending' = Notify("bubble", row.widgetSize, r.widgetSize)
    /\ rowRounds' = 0

\* The host layout gives the container another width.
RowHostResize(w) ==
    /\ rowPending = <<>>
    /\ w # row.hostWidth
    /\ LET size == <<w, row.containerSize[2]>>
       IN  /\ row' = [row EXCEPT !.hostWidth = w, !.containerSize = size]
           /\ rowPending' = Notify("container", row.containerSize, size)
    /\ rowRounds' = 0

\* The first notification reaches rpl::combine, which hands its handler the
\* last size of each widget.
RowDeliver ==
    /\ rowPending # <<>>
    /\ LET n == Head(rowPending)
           latest == IF n.src = "container"
                     THEN [row EXCEPT !.latestParent = n.size]
                     ELSE [row EXCEPT !.latestBubble = n.size]
           r == CombineHandler(latest, latest.latestParent, latest.latestBubble)
       IN  /\ row' = r
           /\ rowPending' = Tail(rowPending)
                \o Notify("container", row.containerSize, r.containerSize)
    /\ rowRounds' = rowRounds + 1

BubbleWidths == 1..MaxWidth
BubbleHeights == 1..MaxHeight

\* AddBubbleRow up to the subscription of rpl::combine: the container has
\* height 0, the BubbleWidget the size of its first resizeTo, and combine
\* has both sizes to hand to its handler.
InitRow ==
    /\ IdleBox
    /\ IdleAccounts
    /\ IdleLine
    /\ IdleBubble
    /\ \E w \in BubbleWidths, h \in BubbleHeights, hostWidth \in Widths :
        LET r == resizeTo(
                    [bubbleWidth |-> w,
                     bubbleHeight |-> h,
                     hostWidth |-> hostWidth,
                     containerSize |-> <<hostWidth, 0>>,
                     widgetSize |-> <<0, 0>>,
                     deflection |-> kDeflection,
                     spaceForDeflection |-> <<0, 0>>,
                     latestParent |-> <<hostWidth, 0>>,
                     latestBubble |-> <<0, 0>>], w, h)
        IN  /\ row = r
            /\ rowPending = <<[src |-> "bubble", size |-> r.widgetSize]>>
    /\ rowRounds = 0

NextRow ==
    \/ \E w \in BubbleWidths :
        RowBubbleWidthChange(w)
            /\ UNCHANGED <<varsAccounts, varsLine, varsBubble, varsBox>>
    \/ \E w \in Widths :
        RowHostResize(w) /\ UNCHANGED <<varsAccounts, varsLine, varsBubble, varsBox>>
    \/ RowDeliver /\ UNCHANGED <<varsAccounts, varsLine, varsBubble, varsBox>>

SpecRow == InitRow /\ [][NextRow]_vars

\* C7: after any bubble width changes and host-driven container width
\* changes the resize handlers come to rest, after at most two runs, and
\* then the BubbleWidget's size is (bubble.width + premiumBubbleSkip,
\* bubble.height + premiumBubbleSkip), the container is as high as the
\* BubbleWidget and as wide as the host made it.
C7_ResizeFixpoint ==
    /\ rowRounds <= 2
    /\ Len(rowPending) <= 1
    /\ rowPending = <<>>
        => /\ row.widgetSize
                = <<row.bubbleWidth + BubbleSkip, row.bubbleHeight + BubbleSkip>>
           /\ row.containerSize[2] = row.widgetSize[2]
           /\ row.containerSize[1] = row.hostWidth
           /\ row.latestParent = row.containerSize
           /\ row.latestBubble = row.widgetSize

\* The handlers are at rest after the host changed the container's width and
\* the bubble its own.
C7_Witness ==
    /\ rowPending = <<>>
    /\ rowRounds = 1
    /\ row.hostWidth = MaxWidth
    /\ row.bubbleWidth = 3
    /\ row.widgetSize = <<3 + BubbleSkip, row.bubbleHeight + BubbleSkip>>
    /\ row.containerSize = <<MaxWidth, row.bubbleHeight + BubbleSkip>>

(***************************************************************************)
(* ShowListBox.                                                            *)
(***************************************************************************)
\* ProcessTextFactory(std::nullopt): QString::number(n).
ProcessTextFactory(n) == [kind |-> "number", n |-> n]

\* The TextFactory ShowListBox hands the Line of entry: the custom right
\* text for the entry's right number, if it has one, else the number.
EntryTextFactory(entry, n) ==
    IF entry.customRightText /\ n = entry.rightNumber
    THEN [kind |-> "custom"]
    ELSE ProcessTextFactory(n)

\* Line::Line(parent, max, textFactory, min): an empty label for a number 0.
LineLabels(entry) ==
    [rightLabel |-> IF entry.rightNumber # 0
                    THEN EntryTextFactory(entry, entry.rightNumber)
                    ELSE [kind |-> "empty"],
     leftLabel |-> IF entry.leftNumber # 0
                   THEN EntryTextFactory(entry, entry.leftNumber)
                   ELSE [kind |-> "empty"]]

\* The body of the loop over the entries: two labels and a Line are added
\* to the content and the Line is pushed to lines.  Line::Line keeps the
\* width the new widget has, sets its height, and runs the size handler at
\* once, the content being as wide as it is then.
AddEntry(b) ==
    LET k == Len(b.lines) + 1
        \* The two labels and the paddings above the Line, then the Line.
        y == (k - 1) * (ListRowSkip + LineHeight) + ListRowSkip
    IN  [b EXCEPT !.lines = Append(@,
            [entry |-> k,
             labels |-> LineLabels(b.entries[k]),
             y |-> y,
             widget |-> SizeHandler(
                [NewLine(<<b.widgetWidth, LineHeight>>) EXCEPT
                    !.parentWidth = b.contentWidth],
                <<b.widgetWidth, LineHeight>>)])]

\* content->height(): the rows added so far, or the height the content had
\* if no row was added.
ContentHeight(b) ==
    IF Len(b.lines) = 0
    THEN b.contentHeight
    ELSE Len(b.lines) * (ListRowSkip + LineHeight)

\* content->resizeToWidth(content->height()): the layout gives every Line
\* the new width less st::settingsPremiumPreviewLinePadding, and then takes
\* the new width itself; the handler of a Line runs while the content, its
\* parent widget, still has the width it had before.
ResizeToWidth(b) ==
    LET newWidth == ContentHeight(b)
        lineSize == <<WidgetWidth(newWidth - PreviewLinePaddingLeft
                                    - PreviewLinePaddingRight), LineHeight>>
        Resized(l) == IF lineSize # l.size THEN SizeHandler(l, lineSize) ELSE l
    IN  [b EXCEPT
            !.lines = [k \in 1..Len(b.lines) |->
                [b.lines[k] EXCEPT
                    !.widget = [Resized(b.lines[k].widget) EXCEPT
                                    !.parentWidth = newWidth]]],
            !.contentWidth = newWidth]

\* A faulty variant of AssertLines that accepts two lines;
\* C10 tells the two apart.
AssertLinesAtLeastTwo(b) == Len(b.lines) >= 2

\* Assert(lines.size() > 2).
AssertLines(b) == Len(b.lines) > 2

\* The brush of the colouring loop for lines[i] (i from 1).
LineBrush(b, i) ==
    LET from == b.lines[1].y
        to == b.lines[Len(b.lines)].y + LineHeight
        pointTop == b.lines[i].y - from
        pointBottom == pointTop + LineHeight
    IN  [kind |-> "brush",
         ratioTop |-> FDiv(FromInt(pointTop), FromInt(to - from)),
         ratioBottom |-> FDiv(FromInt(pointBottom), FromInt(to - from)),
         length |-> pointBottom - pointTop]

\* The body of the colouring loop for lines[i] (i from 1).
ColorLine(b, i) ==
    [b EXCEPT
        !.lines[i].widget = setColorOverride(@, LineBrush(b, i)),
        !.calls = Append(@, i),
        !.i = i + 1]

\* One turn of the loop over the entries.
BoxAddLine ==
    /\ box.pc = "add"
    /\ Len(box.lines) < Len(box.entries)
    /\ box' = AddEntry(box)

\* The loop is over: the content is resized and the assertion checked.
BoxAssert ==
    /\ box.pc = "add"
    /\ Len(box.lines) = Len(box.entries)
    /\ box' = [ResizeToWidth(box) EXCEPT
                !.pc = IF AssertLines(box) THEN "color" ELSE "failed"]

\* One turn of the colouring loop.
BoxColorLine ==
    /\ box.pc = "color"
    /\ box.i <= Len(box.lines)
    /\ box' = ColorLine(box, box.i)

\* The colouring loop is over: skip, title and width of the box.
BoxFinish ==
    /\ box.pc = "color"
    /\ box.i > Len(box.lines)
    /\ box' = [box EXCEPT !.pc = "done"]

\* The entries a caller passes: left and right number, with or without a
\* custom right text.  widgetWidth is the width a new child widget has, the
\* same for every Line of a box.
ListEntries ==
    {[leftNumber |-> 0, rightNumber |-> 2, customRightText |-> FALSE],
     [leftNumber |-> 1, rightNumber |-> 2, customRightText |-> TRUE],
     [leftNumber |-> 1, rightNumber |-> 1, customRightText |-> TRUE]}

\* The width of the box's content before ShowListBox resizes it: none yet,
\* or the one an earlier layout gave it.
BoxContentWidths == {0, MaxWidth}

\* The height of the box's content before ShowListBox adds to it.
BoxContentHeights == {0, MaxHeight}

RECURSIVE SeqsUpTo(_, _)
SeqsUpTo(S, n) ==
    IF n = 0
    THEN {<<>>}
    ELSE LET shorter == SeqsUpTo(S, n - 1)
         IN  shorter \cup {Append(q, e) : q \in shorter, e \in S}

InitBox ==
    /\ IdleAccounts
    /\ IdleLine
    /\ IdleBubble
    /\ IdleRow
    /\ \E entries \in SeqsUpTo(ListEntries, MaxEntries) :
        \E contentWidth \in BoxContentWidths,
           contentHeight \in BoxContentHeights,
           widgetWidth \in Widths :
            box = [pc |-> "add", entries |-> entries, lines |-> <<>>,
                   calls |-> <<>>, i |-> 1, contentWidth |-> contentWidth,
                   contentHeight |-> contentHeight,
                   widgetWidth |-> widgetWidth]

NextBox ==
    \/ BoxAddLine /\ UNCHANGED <<varsAccounts, varsLine, varsBubble, varsRow>>
    \/ BoxAssert /\ UNCHANGED <<varsAccounts, varsLine, varsBubble, varsRow>>
    \/ BoxColorLine /\ UNCHANGED <<varsAccounts, varsLine, varsBubble, varsRow>>
    \/ BoxFinish /\ UNCHANGED <<varsAccounts, varsLine, varsBubble, varsRow>>

SpecBox == InitBox /\ [][NextBox]_vars

\* C10: ShowListBox adds one Line per entry, in entry order; the assertion
\* holds exactly for three or more entries; with fewer it fails before any
\* line got a colour override, and with three or more every line gets
\* exactly one setColorOverride call, from the first line to the last.
C10_OneLinePerEntryThenAssert ==
    LET n == Len(box.entries)
        overridden == {k \in 1..Len(box.lines) :
                        box.lines[k].widget.overrideBrush # NoOverride}
    IN  /\ Len(box.lines) <= n
        /\ \A k \in 1..Len(box.lines) :
            /\ box.lines[k].entry = k
            /\ box.lines[k].labels = LineLabels(box.entries[k])
        /\ box.pc # "add" => Len(box.lines) = n
        /\ box.pc \in {"color", "done"} <=> (box.pc # "add" /\ n >= 3)
        /\ box.pc = "failed" <=> (box.pc # "add" /\ n <= 2)
        /\ box.pc \in {"add", "failed"} => (box.calls = <<>> /\ overridden = {})
        /\ \A j \in 1..Len(box.calls) : box.calls[j] = j
        /\ overridden = 1..Len(box.calls)
        /\ box.pc = "done" => Len(box.calls) = n

\* A box of as many entries as the model has, its Lines built with a width
\* of their own, all its lines coloured.
C10_Witness ==
    /\ box.pc = "done"
    /\ box.widgetWidth > 0
    /\ Len(box.entries) = MaxEntries
    /\ Len(box.calls) = MaxEntries
    /\ box.lines[MaxEntries].widget.overrideBrush.kind = "brush"
    /\ box.lines[MaxEntries].widget.rightPixmap.fill.kind = "gradient"

====
